---- MODULE Spec2Model ----
(***************************************************************************)
(* journalsql: the streaming Journal Export field parser, the Entry Reader *)
(* that drives it one read at a time, the row projection, and the          *)
(* producer / sink pipeline of journalsqld.                                *)
(*                                                                         *)
(* Bytes are naturals 0..255; keys, values and the input stream are        *)
(* sequences of bytes.                                                     *)
(***************************************************************************)
EXTENDS Integers, Sequences, FiniteSets, TLC

(***************************************************************************)
(* Bytes and small sequence helpers                                        *)
(***************************************************************************)
NL == 10
EQ == 61

Drop(s, n) == SubSeq(s, n + 1, Len(s))
Take(s, n) == SubSeq(s, 1, n)

IsPrefix(p, s) == Len(p) <= Len(s) /\ Take(s, Len(p)) = p

(* index of the first byte of s satisfying "in set D", 0 when there is none *)
FirstIn(s, D) ==
    IF \E i \in 1..Len(s) : s[i] \in D
    THEN CHOOSE i \in 1..Len(s) : s[i] \in D /\ \A j \in 1..(i - 1) : s[j] \notin D
    ELSE 0

(***************************************************************************)
(* nom results.  Ok carries the remaining input and the output; Incomplete *)
(* carries Needed::Unknown or Needed::Size(n); Error carries the kind.     *)
(***************************************************************************)
Ok(rem, out)        == [tag |-> "Ok", rem |-> rem, out |-> out]
IncompleteUnknown   == [tag |-> "Incomplete", needed |-> "Unknown", sz |-> 0]
IncompleteSize(n)   == [tag |-> "Incomplete", needed |-> "Size", sz |-> n]
Error(code, input)  == [tag |-> "Error", code |-> code, input |-> input]

(* bytes::streaming::take_till(|b| b == '=' || b == '\n') *)
take_till_key(i) ==
    LET p == FirstIn(i, {EQ, NL})
    IN  IF p = 0 THEN IncompleteSize(1)
        ELSE Ok(Drop(i, p - 1), Take(i, p - 1))

tag_lenient(t, i) ==
    IF i = <<>> THEN IncompleteSize(1)
    ELSE IF Head(i) = t \/ t = NL THEN Ok(Tail(i), <<t>>)
    ELSE Error("Tag", i)

(* bytes::streaming::tag of a one-byte tag *)
tag(t, i) ==
    IF i = <<>> THEN IncompleteSize(1)
    ELSE IF Head(i) = t THEN Ok(Tail(i), <<t>>)
    ELSE Error("Tag", i)

take_until_nl_last(i) ==
    IF \A j \in 1..Len(i) : i[j] # NL THEN IncompleteUnknown
    ELSE LET p == CHOOSE j \in 1..Len(i) :
                      i[j] = NL /\ \A m \in (j + 1)..Len(i) : i[m] # NL
         IN  Ok(Drop(i, p - 1), Take(i, p - 1))

(* bytes::streaming::take_until("\n") *)
take_until_nl(i) ==
    LET p == FirstIn(i, {NL})
    IN  IF p = 0 THEN IncompleteUnknown
        ELSE Ok(Drop(i, p - 1), Take(i, p - 1))

(* The value of an 8-byte little-endian length.  Lengths at or above       *)
(* HugeLen are all reported as HugeLen: such a payload is never available  *)
(* in a bounded stream.                                                    *)
HugeLen == 65536
LeValue_be(b) ==
    IF \E k \in 1..6 : b[k] # 0 THEN HugeLen ELSE b[8] + 256 * b[7]

LeValue(b) ==
    IF \E k \in 3..8 : b[k] # 0 THEN HugeLen ELSE b[1] + 256 * b[2]

le_u64_streaming(i) ==
    IF Len(i) < 8 THEN IncompleteSize(8 - Len(i))
    ELSE Ok(Drop(i, 8), LeValue(Take(i, 8)))

(* number::complete::le_u64 *)
le_u64(i) ==
    IF Len(i) < 8 THEN Error("Eof", i)
    ELSE Ok(Drop(i, 8), LeValue(Take(i, 8)))

length_data_line(i) ==
    LET r == le_u64(i)
    IN  IF r.tag # "Ok" THEN r
        ELSE IF FirstIn(r.rem, {NL}) = 0 THEN IncompleteUnknown
        ELSE Ok(Drop(r.rem, FirstIn(r.rem, {NL}) - 1), Take(r.rem, FirstIn(r.rem, {NL}) - 1))

(* multi::length_data(le_u64) *)
length_data(i) ==
    LET r == le_u64(i)
    IN  IF r.tag # "Ok" THEN r
        ELSE IF r.out > Len(r.rem) THEN IncompleteSize(r.out - Len(r.rem))
        ELSE Ok(Drop(r.rem, r.out), Take(r.rem, r.out))

UTF8(s)  == [kind |-> "UTF8", data |-> s]
Bytes(s) == [kind |-> "Bytes", data |-> s]

parse_utf8_value(i) ==
    LET a == tag(EQ, i)
    IN  IF a.tag # "Ok" THEN a
        ELSE LET b == take_until_nl(a.rem)
             IN  IF b.tag # "Ok" THEN b ELSE Ok(b.rem, UTF8(b.out))

parse_bytes_value(i) ==
    LET a == tag(NL, i)
    IN  IF a.tag # "Ok" THEN a
        ELSE LET b == length_data(a.rem)
             IN  IF b.tag # "Ok" THEN b ELSE Ok(b.rem, Bytes(b.out))

(* branch::alt((parse_utf8_value, parse_bytes_value)): the second parser   *)
(* runs only when the first returns Err::Error; the error of the second    *)
(* is the one reported.                                                    *)
parse_either(i) ==
    LET a == parse_utf8_value(i)
    IN  IF a.tag = "Error" THEN parse_bytes_value(i) ELSE a

parse_journal_field(i) ==
    LET k == take_till_key(i)
    IN  IF k.tag # "Ok" THEN k
        ELSE LET v == parse_either(k.rem)
             IN  IF v.tag # "Ok" THEN v
                 ELSE LET t == tag(NL, v.rem)
                      IN  IF t.tag # "Ok" THEN t
                          ELSE Ok(t.rem, [key |-> k.out, value |-> v.out])

(***************************************************************************)
(* JournalEntry: a map from key to value.                                  *)
(***************************************************************************)
EmptyEntry == [k \in {} |-> UTF8(<<>>)]

put_first(e, key, value) ==
    [k \in (DOMAIN e) \cup {key} |-> IF k \in DOMAIN e THEN e[k] ELSE value]

(* JournalEntry::put: HashMap::insert, the new value replaces an old one *)
put(e, key, value) ==
    [k \in (DOMAIN e) \cup {key} |-> IF k = key THEN value ELSE e[k]]

K_TRANSPORT  == <<95, 84, 82, 65, 78, 83, 80, 79, 82, 84>>
K_MACHINE_ID == <<95, 77, 65, 67, 72, 73, 78, 69, 95, 73, 68>>
K_BOOT_ID    == <<95, 66, 79, 79, 84, 95, 73, 68>>
K_HOSTNAME   == <<95, 72, 79, 83, 84, 78, 65, 77, 69>>
K_REALTIME_TIMESTAMP ==
    <<95, 95, 82, 69, 65, 76, 84, 73, 77, 69, 95, 84, 73, 77, 69, 83, 84, 65, 77, 80>>
K_CURSOR     == <<95, 95, 67, 85, 82, 83, 79, 82>>
K_SEQNUM     == <<95, 95, 83, 69, 81, 78, 85, 77>>
K_SEQNUM_ID  == <<95, 95, 83, 69, 81, 78, 85, 77, 95, 73, 68>>
K_MONOTONIC_TIMESTAMP ==
    <<95, 95, 77, 79, 78, 79, 84, 79, 78, 73, 67, 95, 84, 73, 77, 69, 83, 84, 65, 77, 80>>

INSERT_IGNORED_FIELDS_six ==
    { K_BOOT_ID, K_HOSTNAME, K_MACHINE_ID, K_TRANSPORT, K_CURSOR,
      K_REALTIME_TIMESTAMP }

INSERT_IGNORED_FIELDS ==
    { K_BOOT_ID, K_HOSTNAME, K_MACHINE_ID, K_TRANSPORT, K_CURSOR,
      K_REALTIME_TIMESTAMP, K_SEQNUM, K_SEQNUM_ID, K_MONOTONIC_TIMESTAMP }

(***************************************************************************)
(* String::from(&JournalFieldValue), lossy mode (the default build).       *)
(* strip_ansi_escapes::strip keeps printable bytes and '\n', drops the     *)
(* other C0 control bytes and every escape sequence ESC '[' ... final;     *)
(* from_utf8_lossy replaces a byte that is not valid UTF-8 by U+FFFD.      *)
(* Only single-byte (ASCII) text is modelled as valid.                     *)
(***************************************************************************)
RECURSIVE strip_ansi(_, _)
strip_ansi(s, inEsc) ==
    IF s = <<>> THEN <<>>
    ELSE LET b == Head(s)
         IN  IF inEsc
             THEN IF b = 91 \/ (b >= 48 /\ b <= 63) \/ (b >= 32 /\ b <= 47)
                  THEN strip_ansi(Tail(s), TRUE)
                  ELSE strip_ansi(Tail(s), FALSE)
             ELSE IF b = 27 THEN strip_ansi(Tail(s), TRUE)
             ELSE IF b < 32 /\ b # NL THEN strip_ansi(Tail(s), FALSE)
             ELSE IF b = 127 THEN strip_ansi(Tail(s), FALSE)
             ELSE <<b>> \o strip_ansi(Tail(s), FALSE)

RECURSIVE from_utf8_lossy(_)
from_utf8_lossy(s) ==
    IF s = <<>> THEN <<>>
    ELSE (IF Head(s) >= 128 THEN <<239, 191, 189>> ELSE <<Head(s)>>)
         \o from_utf8_lossy(Tail(s))

ValueToString(v) ==
    IF v.kind = "UTF8" THEN v.data
    ELSE from_utf8_lossy(strip_ansi(v.data, FALSE))

(***************************************************************************)
(* JournalEntry::parse_realtime_timerstamp: str::parse::<i128>, then       *)
(* OffsetDateTime::from_unix_timestamp_nanos(micros * 1000).unwrap().      *)
(* Decimal strings are compared digit-wise, so no wide arithmetic is used. *)
(***************************************************************************)
IsDigit(b) == b >= 48 /\ b <= 57

RECURSIVE StripZeros(_)
StripZeros(d) == IF d # <<>> /\ Head(d) = 48 THEN StripZeros(Tail(d)) ELSE d

(* a <= b for canonical digit strings (no leading zeros) *)
RECURSIVE DecLeq(_, _)
DecLeq(a, b) ==
    IF Len(a) # Len(b) THEN Len(a) < Len(b)
    ELSE IF a = <<>> THEN TRUE
    ELSE IF Head(a) # Head(b) THEN Head(a) < Head(b)
    ELSE DecLeq(Tail(a), Tail(b))

(* i128::MAX, and the microseconds of 9999-12-31T23:59:59.999999Z and of   *)
(* -9999-01-01T00:00:00Z, the range of OffsetDateTime                      *)
I128MaxDigits ==
    <<49,55,48,49,52,49,49,56,51,52,54,48,52,54,57,50,51,49,55,51,
      49,54,56,55,51,48,51,55,49,53,56,56,52,49,48,53,55,50,55>>
I128MinDigits ==
    <<49,55,48,49,52,49,49,56,51,52,54,48,52,54,57,50,51,49,55,51,
      49,54,56,55,51,48,51,55,49,53,56,56,52,49,48,53,55,50,56>>
MaxMicrosDigits == <<50,53,51,52,48,50,51,48,48,55,57,57,57,57,57,57,57,57>>
MinMicrosDigits == <<51,55,55,55,48,53,49,49,54,56,48,48,48,48,48,48,48,48>>

(* "Err": ParseIntError; "Ok": a timestamp; "Panic": the unwrap of an      *)
(* out-of-range timestamp                                                  *)
parse_realtime_timerstamp(s) ==
    LET neg    == s # <<>> /\ Head(s) = 45
        signed == s # <<>> /\ Head(s) \in {43, 45}
        digits == IF signed THEN Tail(s) ELSE s
        canon  == StripZeros(digits)
    IN  IF digits = <<>> \/ \E i \in 1..Len(digits) : ~IsDigit(digits[i])
        THEN [tag |-> "Err"]
        ELSE IF ~DecLeq(canon, IF neg THEN I128MinDigits ELSE I128MaxDigits)
        THEN [tag |-> "Err"]
        ELSE IF DecLeq(canon, IF neg THEN MinMicrosDigits ELSE MaxMicrosDigits)
        THEN [tag |-> "Ok", micros |-> [neg |-> neg /\ canon # <<>>, digits |-> canon]]
        ELSE [tag |-> "Panic"]

(***************************************************************************)
(* LogRecordRow::try_from                                                  *)
(***************************************************************************)
MissingField(k) == [tag |-> "MissingField", field |-> k]

try_from(e) ==
    IF K_TRANSPORT \notin DOMAIN e THEN MissingField(K_TRANSPORT)
    ELSE IF K_MACHINE_ID \notin DOMAIN e THEN MissingField(K_MACHINE_ID)
    ELSE IF K_BOOT_ID \notin DOMAIN e THEN MissingField(K_BOOT_ID)
    ELSE IF K_HOSTNAME \notin DOMAIN e THEN MissingField(K_HOSTNAME)
    ELSE IF K_REALTIME_TIMESTAMP \notin DOMAIN e
         THEN MissingField(K_REALTIME_TIMESTAMP)
    ELSE LET ts == parse_realtime_timerstamp(ValueToString(e[K_REALTIME_TIMESTAMP]))
         IN  IF ts.tag = "Err" THEN [tag |-> "Unspecified"]
             ELSE IF ts.tag = "Panic" THEN [tag |-> "Panic"]
             ELSE IF K_CURSOR \notin DOMAIN e THEN MissingField(K_CURSOR)
             ELSE [tag |-> "Row",
                   machine_id |-> ValueToString(e[K_MACHINE_ID]),
                   boot_id    |-> ValueToString(e[K_BOOT_ID]),
                   timestamp  |-> ts.micros,
                   hostname   |-> ValueToString(e[K_HOSTNAME]),
                   transport  |-> ValueToString(e[K_TRANSPORT]),
                   cursor     |-> ValueToString(e[K_CURSOR]),
                   record     |-> { <<k, ValueToString(e[k])>> :
                                     k \in (DOMAIN e) \ INSERT_IGNORED_FIELDS }]

(***************************************************************************)
(* Input streams.  A well-formed stream is the Journal Export encoding of  *)
(* a list of entries, each a non-empty list of fields.                     *)
(***************************************************************************)
Field(k, v) == [key |-> k, value |-> v]

LE64(n) == <<n % 256, (n \div 256) % 256, 0, 0, 0, 0, 0, 0>>

EncodeField(f) ==
    IF f.value.kind = "UTF8"
    THEN f.key \o <<EQ>> \o f.value.data \o <<NL>>
    ELSE f.key \o <<NL>> \o LE64(Len(f.value.data)) \o f.value.data \o <<NL>>

RECURSIVE EncodeFields(_)
EncodeFields(fs) ==
    IF fs = <<>> THEN <<>> ELSE EncodeField(Head(fs)) \o EncodeFields(Tail(fs))

EncodeEntry(fs) == EncodeFields(fs) \o <<NL>>

RECURSIVE EncodeEntries(_)
EncodeEntries(es) ==
    IF es = <<>> THEN <<>> ELSE EncodeEntry(Head(es)) \o EncodeEntries(Tail(es))

(* the mapping an entry's field list denotes: per key, its last value *)
EntryOf(fs) ==
    [k \in {fs[i].key : i \in 1..Len(fs)} |->
        fs[CHOOSE i \in 1..Len(fs) :
              fs[i].key = k /\ \A j \in (i + 1)..Len(fs) : fs[j].key # k].value]

EntriesOf(es) == [i \in 1..Len(es) |-> EntryOf(es[i])]

(* the six required fields, with one-byte values and timestamp ts *)
Required(ts) ==
    << Field(K_TRANSPORT, UTF8(<<115>>)),
       Field(K_MACHINE_ID, UTF8(<<109>>)),
       Field(K_BOOT_ID, UTF8(<<98>>)),
       Field(K_HOSTNAME, UTF8(<<104>>)),
       Field(K_REALTIME_TIMESTAMP, UTF8(ts)),
       Field(K_CURSOR, UTF8(<<99>>)) >>

(* sample entries: projectable with a text field; not projectable (no      *)
(* required field), a repeated key with an empty binary value; projectable *)
(* with a binary value holding '\n'; a timestamp that is no integer        *)
E_msg   == <<Field(<<77>>, UTF8(<<104, 105>>))>> \o Required(<<49>>)
E_short == <<Field(<<65>>, UTF8(<<49>>)), Field(<<65>>, Bytes(<<>>))>>
E_blob  == Required(<<50>>) \o <<Field(<<66>>, Bytes(<<65, NL, 66>>))>>
E_badts == Required(<<120>>)
E_tiny  == <<Field(<<65>>, UTF8(<<>>))>>
(* a timestamp one second past 9999-12-31T23:59:59Z *)
E_late  == Required(<<50,53,51,52,48,50,51,48,48,56,48,48,48,48,48,48,48,48>>)

Pool == <<E_msg, E_short, E_blob, E_badts, E_late>>

MaxEntries == 3
MaxBurst == 6

(* n consecutive sample entries, starting at the s-th, cyclically *)
Window(s, n) == [i \in 1..n |-> Pool[((s + i - 2) % Len(Pool)) + 1]]
Burst(n) == [i \in 1..n |-> E_tiny]

EntryLists ==
    {Window(s, n) : s \in 1..Len(Pool), n \in 0..MaxEntries}
    \cup {Burst(MaxBurst)}

(* the stream truncated at every byte: a text entry, then a binary entry *)
TruncBase == <<E_tiny, <<Field(<<66>>, Bytes(<<120, NL>>))>>>>

(* a stream in which the '\n' that must follow a binary payload is another *)
(* byte: the second entry has a text field, then the broken binary field   *)
BadBase ==
    <<E_tiny, <<Field(<<65>>, UTF8(<<49>>)), Field(<<66>>, Bytes(<<120, NL>>))>>>>

BadTerminator ==
    LET b == EncodeEntries(BadBase)
    IN  [b EXCEPT ![Len(b) - 1] = 88]

Inputs ==
    {[entries |-> es, bytes |-> EncodeEntries(es), wf |-> TRUE] : es \in EntryLists}
    \cup
    {[entries |-> TruncBase, bytes |-> Take(EncodeEntries(TruncBase), n), wf |-> FALSE] :
        n \in 1..(Len(EncodeEntries(TruncBase)) - 1)}
    \cup
    {[entries |-> BadBase, bytes |-> BadTerminator, wf |-> FALSE]}

(***************************************************************************)
(* State                                                                   *)
(***************************************************************************)
VARIABLES
    inp,            \* the input: the byte stream the upstream delivers
    upstream,       \* what a read finds after the last byte: "eof", "idle", "ioerr"
    pos,            \* bytes of the stream consumed by the reader
    pcP,            \* producer: "parse", "send", "read", "done"
    input,          \* read_journal_entries: the buffer
    current_entry,  \* read_journal_entries: the entry under construction
    to_read,        \* read_journal_entries: the demand of the next read
    resP,           \* producer result: "none", "Ok", "IOError", "ParseError"
    exitP,          \* how the producer left its loop: "none", "eof", "closed", "error"
    chan,           \* the mpsc channel's buffer
    rxOpen,         \* the receiver has not been dropped
    sent,           \* history: entries accepted by send
    sig,            \* shutdown event: "none", "delivered", "taken"
    snap,           \* history: <<entries sent, entries received>> when it was taken
    pcC,            \* sink task: "select", "write", "commit", "end", "done"
    row,            \* sink task: the row being inserted
    received,       \* history: entries the sink took from the channel
    sinkOps,        \* history: calls on the inserter, in order
    unprocessable,  \* journal_entries_unprocessable{"unknown"}
    resC,           \* sink result: "none", "Ok", "Err", "Panic"
    joined,         \* the top-level try_join! has completed
    call,           \* a function applied on its own: its name and argument
    ret             \* the value that application returned

vars == <<inp, upstream, pos, pcP, input, current_entry, to_read, resP, exitP,
          chan, rxOpen, sent, sig, snap, pcC, row, received, sinkOps, unprocessable, resC,
          joined, call, ret>>

prodVars == <<pos, pcP, input, current_entry, to_read, resP, exitP>>
sinkVars == <<pcC, row, received, sinkOps, unprocessable, resC>>
envVars  == <<inp, upstream, call, ret>>

NumCpus == 1
machines == 1
ChannelCapacity == 4 * NumCpus * machines
READ_STEP == 1

NoRow == [tag |-> "None"]
NoCall == [fn |-> "none"]
NoRet == [tag |-> "None"]

Init ==
    /\ call = NoCall
    /\ ret = NoRet
    /\ inp \in Inputs
    /\ upstream \in {"eof", "idle", "ioerr"}
    /\ pos = 0
    /\ pcP = "parse"
    /\ input = <<>>
    /\ current_entry = EmptyEntry
    /\ to_read = 0
    /\ resP = "none"
    /\ exitP = "none"
    /\ chan = <<>>
    /\ rxOpen = TRUE
    /\ sent = <<>>
    /\ sig = "none"
    /\ snap = <<0, 0>>
    /\ pcC = "select"
    /\ row = NoRow
    /\ received = <<>>
    /\ sinkOps = <<>>
    /\ unprocessable = 0
    /\ resC = "none"
    /\ joined = FALSE

(***************************************************************************)
(* Producer: read_journal_entries, one action per suspension point.        *)
(***************************************************************************)
Avail == Len(inp.bytes) - pos

Compact_keep(buf, rem) == buf

(* input.truncate(remaining.len()); input.extend(&remaining) *)
Compact(buf, rem) == Take(buf, Len(rem)) \o rem

IsEntryTerminator_last(buf) == buf # <<>> /\ buf[Len(buf)] = NL

(* input.len() == 1 && input[0] == b'\n' *)
IsEntryTerminator(buf) == Len(buf) = 1 /\ buf[1] = NL

Demand_step(r) == READ_STEP

Demand_block(r) ==
    IF r.tag = "Incomplete" /\ r.needed = "Size" THEN r.sz ELSE READ_STEP + 1

(* the match on parse_result: the demand of the next read *)
Demand(r) ==
    IF r.tag = "Incomplete" /\ r.needed = "Size" THEN r.sz ELSE READ_STEP

Enqueue_lifo(c, e) == <<e>> \o c
HasCapacity_offByOne(c) == Len(c) <= ChannelCapacity

(* mpsc::Sender::send: the bounded queue is FIFO *)
Enqueue(c, e) == Append(c, e)
HasCapacity(c) == Len(c) < ChannelCapacity

(* the parse and the match on its result, up to the send or the read *)
P_Parse ==
    /\ pcP = "parse" /\ ~joined
    /\ \E r \in {parse_journal_field(input)} :
           CASE r.tag = "Ok" ->
                  /\ input' = Compact(input, r.rem)
                  /\ current_entry' = put(current_entry, r.out.key, r.out.value)
                  /\ to_read' = Demand(r)
                  /\ pcP' = "read"
                  /\ UNCHANGED <<resP, exitP>>
             [] r.tag = "Incomplete" ->
                  /\ to_read' = Demand(r)
                  /\ pcP' = "read"
                  /\ UNCHANGED <<input, current_entry, resP, exitP>>
             [] r.tag = "Error" /\ r.code = "Eof" /\ IsEntryTerminator(input) ->
                  /\ pcP' = "send"
                  /\ UNCHANGED <<input, current_entry, to_read, resP, exitP>>
             [] r.tag = "Error" /\ r.code = "Eof" /\ ~IsEntryTerminator(input) ->
                  /\ to_read' = Demand(r)
                  /\ pcP' = "read"
                  /\ UNCHANGED <<input, current_entry, resP, exitP>>
             [] r.tag = "Error" /\ r.code # "Eof" ->
                  /\ pcP' = "done"
                  /\ resP' = "ParseError"
                  /\ exitP' = "error"
                  /\ UNCHANGED <<input, current_entry, to_read>>
    /\ UNCHANGED <<pos, chan, rxOpen, sent, sig, snap, joined>>
    /\ UNCHANGED sinkVars /\ UNCHANGED envVars

(* sender.send(current_entry).await succeeds: the entry is queued, the     *)
(* entry and the buffer are reset                                          *)
P_Send ==
    /\ pcP = "send" /\ ~joined
    /\ rxOpen /\ HasCapacity(chan)
    /\ chan' = Enqueue(chan, current_entry)
    /\ sent' = Append(sent, current_entry)
    /\ current_entry' = EmptyEntry
    /\ input' = <<>>
    /\ to_read' = READ_STEP
    /\ pcP' = "read"
    /\ UNCHANGED <<pos, resP, exitP, rxOpen, sig, snap, joined>>
    /\ UNCHANGED sinkVars /\ UNCHANGED envVars

P_SendClosed_error ==
    /\ pcP = "send" /\ ~joined
    /\ ~rxOpen
    /\ pcP' = "done"
    /\ resP' = "IOError"
    /\ exitP' = "error"
    /\ UNCHANGED <<pos, input, current_entry, to_read, chan, rxOpen, sent, sig, snap, joined>>
    /\ UNCHANGED sinkVars /\ UNCHANGED envVars

(* sender.send fails, the receiver is gone: break, return Ok *)
P_SendClosed ==
    /\ pcP = "send" /\ ~joined
    /\ ~rxOpen
    /\ pcP' = "done"
    /\ resP' = "Ok"
    /\ exitP' = "closed"
    /\ UNCHANGED <<pos, input, current_entry, to_read, chan, rxOpen, sent, sig, snap, joined>>
    /\ UNCHANGED sinkVars /\ UNCHANGED envVars

(* after read_to_end has returned: if input.is_empty() { break } *)
AfterRead(buf) == IF buf = <<>> THEN "done" ELSE "parse"

(* reader.take(to_read).read_to_end(&mut input): one read of the source,   *)
(* which may be short; read_to_end returns once the limit is used up       *)
P_Read ==
    /\ pcP = "read" /\ ~joined
    /\ \E n \in 1..to_read :
          /\ n <= Avail
          /\ input' = input \o SubSeq(inp.bytes, pos + 1, pos + n)
          /\ pos' = pos + n
          /\ to_read' = to_read - n
          /\ pcP' = IF to_read' = 0 THEN "parse" ELSE "read"
    /\ UNCHANGED <<current_entry, resP, exitP, chan, rxOpen, sent, sig, snap, joined>>
    /\ UNCHANGED sinkVars /\ UNCHANGED envVars

(* the source reports end of file: read_to_end returns what it has *)
P_ReadEof ==
    /\ pcP = "read" /\ ~joined
    /\ Avail = 0 /\ upstream = "eof"
    /\ pcP' = AfterRead(input)
    /\ resP' = IF AfterRead(input) = "done" THEN "Ok" ELSE resP
    /\ exitP' = IF AfterRead(input) = "done" THEN "eof" ELSE exitP
    /\ to_read' = 0
    /\ UNCHANGED <<pos, input, current_entry, chan, rxOpen, sent, sig, snap, joined>>
    /\ UNCHANGED sinkVars /\ UNCHANGED envVars

(* the source fails: map_err(JournalReadError::IOError)? *)
P_ReadIOError ==
    /\ pcP = "read" /\ ~joined
    /\ Avail = 0 /\ upstream = "ioerr"
    /\ pcP' = "done"
    /\ resP' = "IOError"
    /\ exitP' = "error"
    /\ UNCHANGED <<pos, input, current_entry, to_read, chan, rxOpen, sent, sig, snap, joined>>
    /\ UNCHANGED sinkVars /\ UNCHANGED envVars

(***************************************************************************)
(* Sink task: consumer_fut                                                 *)
(***************************************************************************)
SinkOp(op, r, ok) == [op |-> op, row |-> r, ok |-> ok]

(* the branches of tokio::select!; a ready branch is picked at random *)
ShutdownReady(s) == s = "delivered"
RecvReady(c) == c # <<>>
ClosedReady(c, producerPc) == c = <<>> /\ producerPc = "done"

(* the signal thread posts the single shutdown event *)
Signal ==
    /\ sig = "none" /\ ~joined
    /\ sig' = "delivered"
    /\ UNCHANGED <<chan, rxOpen, sent, snap, joined>>
    /\ UNCHANGED prodVars /\ UNCHANGED sinkVars /\ UNCHANGED envVars

AfterShutdown_continue == "select"
OnRowError_break == "end"

(* where `break 'the_loop` leads: the call of end() after the loop *)
AfterShutdown == "end"

(* where `continue` leads after a row could not be produced *)
OnRowError == "select"

(* _ = sigint_ch.recv() => break 'the_loop *)
C_Shutdown ==
    /\ pcC = "select"
    /\ ShutdownReady(sig)
    /\ sig' = "taken"
    /\ snap' = <<Len(sent), Len(received)>>
    /\ pcC' = AfterShutdown
    /\ UNCHANGED <<row, received, sinkOps, unprocessable, resC>>
    /\ UNCHANGED <<chan, rxOpen, sent, joined>>
    /\ UNCHANGED prodVars /\ UNCHANGED envVars

(* entry = receiver.recv() => Some(entry): project it *)
C_Recv ==
    /\ pcC = "select"
    /\ RecvReady(chan)
    /\ LET e == Head(chan)
           r == try_from(e)
       IN  /\ chan' = IF r.tag = "Panic" THEN <<>> ELSE Tail(chan)
           /\ received' = Append(received, e)
           /\ CASE r.tag = "Row" ->
                     /\ row' = r
                     /\ pcC' = "write"
                     /\ UNCHANGED <<unprocessable, resC, rxOpen>>
                [] r.tag \in {"MissingField", "Unspecified"} ->
                     /\ unprocessable' = unprocessable + 1
                     /\ pcC' = OnRowError
                     /\ UNCHANGED <<row, resC, rxOpen>>
                [] r.tag = "Panic" ->
                     /\ pcC' = "done"
                     /\ resC' = "Panic"
                     /\ rxOpen' = FALSE
                     /\ UNCHANGED <<row, unprocessable>>
    /\ UNCHANGED <<sinkOps, sent, sig, snap, joined>>
    /\ UNCHANGED prodVars /\ UNCHANGED envVars

(* entry = receiver.recv() => None: break *)
C_RecvClosed ==
    /\ pcC = "select"
    /\ ClosedReady(chan, pcP)
    /\ pcC' = "end"
    /\ UNCHANGED <<row, received, sinkOps, unprocessable, resC>>
    /\ UNCHANGED <<chan, rxOpen, sent, sig, snap, joined>>
    /\ UNCHANGED prodVars /\ UNCHANGED envVars

OnSinkError_end == "end"

(* where the task goes when `?` meets an Err: the async block returns *)
OnSinkError == "done"

(* logs_inserter.write(&row).await? *)
C_Write ==
    /\ pcC = "write"
    /\ \E ok \in BOOLEAN :
          /\ sinkOps' = Append(sinkOps, SinkOp("write", row, ok))
          /\ pcC' = IF ok THEN "commit" ELSE OnSinkError
          /\ resC' = IF ok \/ OnSinkError # "done" THEN resC ELSE "Err"
          /\ rxOpen' = (pcC' # "done")
          /\ chan' = IF pcC' = "done" THEN <<>> ELSE chan
    /\ UNCHANGED <<row, received, unprocessable>>
    /\ UNCHANGED <<sent, sig, snap, joined>>
    /\ UNCHANGED prodVars /\ UNCHANGED envVars

(* logs_inserter.commit().await? *)
C_Commit ==
    /\ pcC = "commit"
    /\ \E ok \in BOOLEAN :
          /\ sinkOps' = Append(sinkOps, SinkOp("commit", row, ok))
          /\ pcC' = IF ok THEN "select" ELSE OnSinkError
          /\ resC' = IF ok \/ OnSinkError # "done" THEN resC ELSE "Err"
          /\ rxOpen' = (pcC' # "done")
          /\ chan' = IF pcC' = "done" THEN <<>> ELSE chan
          /\ row' = IF ok THEN NoRow ELSE row
    /\ UNCHANGED <<received, unprocessable>>
    /\ UNCHANGED <<sent, sig, snap, joined>>
    /\ UNCHANGED prodVars /\ UNCHANGED envVars

(* logs_inserter.end().await; the block ends and the receiver is dropped *)
C_End ==
    /\ pcC = "end"
    /\ \E ok \in BOOLEAN :
          /\ sinkOps' = Append(sinkOps, SinkOp("end", NoRow, ok))
          /\ resC' = IF resC = "none" THEN (IF ok THEN "Ok" ELSE "Err") ELSE resC
    /\ pcC' = "done"
    /\ rxOpen' = FALSE
    /\ chan' = <<>>
    /\ UNCHANGED <<row, received, unprocessable>>
    /\ UNCHANGED <<sent, sig, snap, joined>>
    /\ UNCHANGED prodVars /\ UNCHANGED envVars

(***************************************************************************)
(* entrypoint: tokio::try_join!(consumer, producer)?  Both handles are     *)
(* awaited; only a JoinError (a panicked task) ends the join early.        *)
(***************************************************************************)
JoinReady(c, p, rc) == (c = "done" /\ p = "done") \/ rc = "Panic"

Join ==
    /\ ~joined
    /\ JoinReady(pcC, pcP, resC)
    /\ joined' = TRUE
    /\ UNCHANGED <<chan, rxOpen, sent, sig, snap>>
    /\ UNCHANGED prodVars /\ UNCHANGED sinkVars /\ UNCHANGED envVars

Next ==
    \/ P_Parse \/ P_Send \/ P_SendClosed \/ P_Read \/ P_ReadEof \/ P_ReadIOError
    \/ Signal
    \/ C_Shutdown \/ C_Recv \/ C_RecvClosed \/ C_Write \/ C_Commit \/ C_End
    \/ Join

Spec == Init /\ [][Next]_vars

(* Both tasks run on the runtime's worker threads and are always resumed   *)
(* when they can take a step; the arrival of a signal is not guaranteed.   *)
Producer == P_Parse \/ P_Send \/ P_SendClosed \/ P_Read \/ P_ReadEof \/ P_ReadIOError
Sink == C_Shutdown \/ C_Recv \/ C_RecvClosed \/ C_Write \/ C_Commit \/ C_End

FairSpec == Spec /\ WF_vars(Producer) /\ WF_vars(Sink) /\ WF_vars(Join)

(***************************************************************************)
(* The field parser and the row projection applied on their own, to        *)
(* arguments drawn from bounded sets.  A call names the function, the      *)
(* argument, and what the argument was built from.                         *)
(***************************************************************************)
MaxKeyLen == 2
MaxValueLen == 2
MaxDeclared == 3

SeqsOver(A, lo, hi) == UNION {[1..n -> A] : n \in lo..hi}

Keys         == SeqsOver({65, 66}, 0, MaxKeyLen)
TextValues   == SeqsOver({86, EQ, 0}, 0, MaxValueLen)
BinaryValues == SeqsOver({120, NL, 0}, 0, MaxValueLen)
Rests        == {<<>>, <<NL>>, <<EQ>>, <<88>>, <<65, EQ, 86, NL>>}

Fields ==
    {Field(k, UTF8(v)) : k \in Keys, v \in TextValues}
    \cup {Field(k, Bytes(b)) : k \in Keys, b \in BinaryValues}

ParseCall(form, f, rest, declared, arg) ==
    [fn |-> "parse_journal_field", form |-> form, key |-> f.key, value |-> f.value,
     rest |-> rest, declared |-> declared, arg |-> arg, entry |-> EmptyEntry]

ProjectCall(e) ==
    [fn |-> "try_from", form |-> "entry", key |-> <<>>, value |-> UTF8(<<>>),
     rest |-> <<>>, declared |-> 0, arg |-> <<>>, entry |-> e]

(* a whole field followed by REST *)
WholeCalls ==
    {ParseCall("whole", f, r, Len(f.value.data), EncodeField(f) \o r) :
        f \in Fields, r \in Rests}

(* every non-empty proper prefix of a whole field *)
PrefixCalls ==
    UNION {{ParseCall("prefix", f, <<>>, Len(f.value.data), Take(EncodeField(f), n)) :
               n \in 1..(Len(EncodeField(f)) - 1)} : f \in Fields}

(* a binary field cut inside its payload: N bytes declared, fewer present *)
MidPayloadCalls ==
    UNION {{ParseCall("mid", Field(k, Bytes(b)), <<>>, n, k \o <<NL>> \o LE64(n) \o b) :
               n \in (Len(b) + 1)..(Len(b) + MaxDeclared)} :
           k \in Keys, b \in BinaryValues}

(* entries for the projection: any subset of the required fields, a        *)
(* timestamp that is valid, no integer, or out of range, and other fields  *)
Timestamps ==
    {<<49>>, <<120>>, <<45, 49>>,
     <<50,53,51,52,48,50,51,48,48,56,48,48,48,48,48,48,48,48>>}

OtherFields ==
    { <<>>,
      <<Field(<<77>>, UTF8(<<104, 105>>))>>,
      <<Field(<<66>>, Bytes(<<27, 91, 49, 109, 65, 200>>)), Field(<<>>, UTF8(<<>>))>>,
      <<Field(K_SEQNUM, UTF8(<<55>>)), Field(K_SEQNUM_ID, UTF8(<<56>>)),
        Field(K_MONOTONIC_TIMESTAMP, UTF8(<<57>>)), Field(<<77>>, Bytes(<<>>))>> }

Keep(fs, S) == SelectSeq(fs, LAMBDA f : f.key \in S)

RequiredKeys ==
    {K_TRANSPORT, K_MACHINE_ID, K_BOOT_ID, K_HOSTNAME, K_REALTIME_TIMESTAMP, K_CURSOR}

ProjectCalls ==
    {ProjectCall(EntryOf(Keep(Required(ts), S) \o o)) :
        S \in SUBSET RequiredKeys, ts \in Timestamps, o \in OtherFields}

Calls == WholeCalls \cup PrefixCalls \cup MidPayloadCalls \cup ProjectCalls

FnInit ==
    /\ call \in Calls
    /\ ret = NoRet
    /\ inp = [entries |-> <<>>, bytes |-> <<>>, wf |-> TRUE]
    /\ upstream = "eof"
    /\ pos = 0
    /\ pcP = "parse"
    /\ input = <<>>
    /\ current_entry = EmptyEntry
    /\ to_read = 0
    /\ resP = "none"
    /\ exitP = "none"
    /\ chan = <<>>
    /\ rxOpen = TRUE
    /\ sent = <<>>
    /\ sig = "none"
    /\ snap = <<0, 0>>
    /\ pcC = "select"
    /\ row = NoRow
    /\ received = <<>>
    /\ sinkOps = <<>>
    /\ unprocessable = 0
    /\ resC = "none"
    /\ joined = FALSE

pipeVars == <<chan, rxOpen, sent, sig, snap, joined>>

Apply_parse_journal_field ==
    /\ call.fn = "parse_journal_field" /\ ret = NoRet
    /\ ret' = parse_journal_field(call.arg)
    /\ UNCHANGED <<inp, upstream, call>>
    /\ UNCHANGED prodVars /\ UNCHANGED sinkVars /\ UNCHANGED pipeVars

Apply_try_from ==
    /\ call.fn = "try_from" /\ ret = NoRet
    /\ ret' = try_from(call.entry)
    /\ UNCHANGED <<inp, upstream, call>>
    /\ UNCHANGED prodVars /\ UNCHANGED sinkVars /\ UNCHANGED pipeVars

FnNext == Apply_parse_journal_field \/ Apply_try_from

FnSpec == FnInit /\ [][FnNext]_vars

(***************************************************************************)
(* The Entry Reader on its own, on streams of one entry whose fields       *)
(* repeat keys and on streams with blank lines: the sink task has not been *)
(* scheduled yet, the channel has room.                                    *)
(***************************************************************************)
MaxFields == 3

RepeatFields ==
    { Field(<<65>>, UTF8(<<49>>)), Field(<<65>>, UTF8(<<50>>)),
      Field(<<65>>, Bytes(<<49>>)), Field(<<65>>, Bytes(<<NL>>)),
      Field(<<66>>, UTF8(<<>>)) }

RepeatEntries == SeqsOver(RepeatFields, 2, MaxFields)

(* streams with a blank line: a lone terminator, two terminators, a blank  *)
(* line before an entry, and two terminators after an entry; a blank line  *)
(* is listed as an entry without fields                                    *)
BlankStreams ==
    { << <<>> >>,
      << <<>>, <<>> >>,
      << <<>>, <<Field(<<65>>, UTF8(<<49>>))>> >>,
      << <<Field(<<65>>, UTF8(<<49>>))>>, <<>> >> }

ReaderStreams ==
    {[entries |-> <<fs>>, bytes |-> EncodeEntries(<<fs>>), wf |-> TRUE] :
        fs \in RepeatEntries}
    \cup
    {[entries |-> es, bytes |-> EncodeEntries(es), wf |-> FALSE] : es \in BlankStreams}

ReaderInit ==
    /\ call = NoCall
    /\ ret = NoRet
    /\ inp \in ReaderStreams
    /\ upstream = "eof"
    /\ pos = 0
    /\ pcP = "parse"
    /\ input = <<>>
    /\ current_entry = EmptyEntry
    /\ to_read = 0
    /\ resP = "none"
    /\ exitP = "none"
    /\ chan = <<>>
    /\ rxOpen = TRUE
    /\ sent = <<>>
    /\ sig = "none"
    /\ snap = <<0, 0>>
    /\ pcC = "select"
    /\ row = NoRow
    /\ received = <<>>
    /\ sinkOps = <<>>
    /\ unprocessable = 0
    /\ resC = "none"
    /\ joined = FALSE

ReaderNext == P_Parse \/ P_Send \/ P_Read \/ P_ReadEof

ReaderSpec == ReaderInit /\ [][ReaderNext]_vars

(***************************************************************************)
(* The pipeline on two short streams that end at an entry boundary, under  *)
(* the fair scheduling of FairSpec: a projectable entry and a short one;   *)
(* an entry whose timestamp is out of range and a short one.               *)
(***************************************************************************)
DrainStreams == {<<E_msg, E_tiny>>, <<E_late, E_tiny>>}

DrainInit ==
    /\ call = NoCall
    /\ ret = NoRet
    /\ \E es \in DrainStreams :
          inp = [entries |-> es, bytes |-> EncodeEntries(es), wf |-> TRUE]
    /\ upstream \in {"eof", "ioerr"}
    /\ pos = 0
    /\ pcP = "parse"
    /\ input = <<>>
    /\ current_entry = EmptyEntry
    /\ to_read = 0
    /\ resP = "none"
    /\ exitP = "none"
    /\ chan = <<>>
    /\ rxOpen = TRUE
    /\ sent = <<>>
    /\ sig = "none"
    /\ snap = <<0, 0>>
    /\ pcC = "select"
    /\ row = NoRow
    /\ received = <<>>
    /\ sinkOps = <<>>
    /\ unprocessable = 0
    /\ resC = "none"
    /\ joined = FALSE

DrainSpec ==
    DrainInit /\ [][Next]_vars
        /\ WF_vars(Producer) /\ WF_vars(Sink) /\ WF_vars(Join)

(***************************************************************************)
(* Properties                                                              *)
(***************************************************************************)
IsWrite(o) == o.op = "write"
WrittenRows ==
    LET w == SelectSeq(sinkOps, IsWrite) IN [i \in 1..Len(w) |-> w[i].row]

(* the row the sink holds between the projection and the call of write() *)
PendingRow == IF pcC = "write" THEN <<row>> ELSE <<>>

RECURSIVE ProjRows(_)
ProjRows(es) ==
    IF es = <<>> THEN <<>>
    ELSE (IF try_from(Head(es)).tag = "Row" THEN <<try_from(Head(es))>> ELSE <<>>)
         \o ProjRows(Tail(es))

(* C1: for a well-formed stream the entries the sink has taken are a       *)
(* prefix of the input's entries, the channel holds exactly the sent       *)
(* entries not yet taken, in order, and the rows passed to write() are the *)
(* rows of the taken entries that project, in input order.                 *)
C1_Ordering ==
    inp.wf =>
        /\ IsPrefix(received, EntriesOf(inp.entries))
        /\ rxOpen => sent = received \o chan
        /\ WrittenRows \o PendingRow = ProjRows(received)

C1_Witness ==
    /\ inp.wf
    /\ Len(received) = 3
    /\ Len(WrittenRows) = 2
    /\ try_from(received[2]).tag = "MissingField"

(* the reader has read past the terminator of the k-th entry, or has read  *)
(* it and gone on to its next read                                         *)
ReadThrough(k) ==
    LET end == Len(EncodeEntries(Take(inp.entries, k)))
    IN  pos > end \/ (pos = end /\ pcP \in {"read", "done"})

(* C2: on a well-formed stream, unless the channel was closed under it,    *)
(* the reader has sent the k-th entry, with its exact mapping, as soon as  *)
(* it has read through the k-th terminator, it never reports a parse       *)
(* error, and when it has returned after EOF it returned Ok having sent    *)
(* exactly the input's entries, in order.                                  *)
C2_ReadsAllEntries ==
    (inp.wf /\ exitP # "closed") =>
        /\ IsPrefix(sent, EntriesOf(inp.entries))
        /\ \A k \in 1..Len(inp.entries) : ReadThrough(k) => Len(sent) >= k
        /\ resP # "ParseError"
        /\ (pcP = "done" /\ upstream = "eof") =>
              /\ resP = "Ok"
              /\ exitP = "eof"
              /\ sent = EntriesOf(inp.entries)

C2_Witness ==
    /\ inp.wf /\ pcP = "done" /\ exitP = "eof"
    /\ Len(sent) = 3
    /\ \E i \in 1..3 : \E k \in DOMAIN sent[i] :
          sent[i][k] = Bytes(<<65, NL, 66>>)
    /\ \E i \in 1..3 : \E k \in DOMAIN sent[i] : sent[i][k] = Bytes(<<>>)

(* C3: every entry sent is a whole entry of the stream: it is the mapping  *)
(* of all the fields of the i-th entry, and its terminator has been read;  *)
(* the fields of an entry cut short by EOF, an IO error or a parse error   *)
(* stay in the reader.                                                     *)
C3_NoPartialEntry ==
    \A i \in 1..Len(sent) :
        /\ i <= Len(inp.entries)
        /\ sent[i] = EntryOf(inp.entries[i])
        /\ Len(EncodeEntries(Take(inp.entries, i))) <= pos

C3_Witness ==
    /\ ~inp.wf /\ pcP = "done" /\ exitP = "eof"
    /\ current_entry # EmptyEntry
    /\ Len(sent) = 1

(* the lengths at which a field or an entry terminator of es ends *)
Boundaries(es) ==
    {Len(EncodeEntries(Take(es, k))) : k \in 0..Len(es)}
    \cup
    UNION {{Len(EncodeEntries(Take(es, k - 1))) + Len(EncodeFields(Take(es[k], j))) :
               j \in 1..Len(es[k])} : k \in 1..Len(es)}

(* the stream stops inside a field *)
EndsMidField ==
    /\ IsPrefix(inp.bytes, EncodeEntries(inp.entries))
    /\ Len(inp.bytes) \notin Boundaries(inp.entries)

(* C4: when the stream reaches EOF in the middle of a field, the reader    *)
(* eventually returns Ok.                                                  *)
C4_TerminatesOnTruncation ==
    (EndsMidField /\ upstream = "eof") ~> (pcP = "done" /\ resP = "Ok")

LastOp == sinkOps[Len(sinkOps)]
EndedLast == sinkOps # <<>> /\ LastOp.op = "end"
FailedLast == sinkOps # <<>> /\ LastOp.op \in {"write", "commit"} /\ ~LastOp.ok
EndCalls == Cardinality({i \in 1..Len(sinkOps) : sinkOps[i].op = "end"})

(* C5 as claimed: from the delivery of the shutdown event on, the sink     *)
(* takes no entry from the channel.                                        *)
C5_NoEntryAfterDelivery ==
    [][sig # "none" => received' = received]_vars

(* C5 as amended: from the moment the sink's select has taken the shutdown *)
(* event, the sink takes no entry and calls nothing but end(), which ends  *)
(* the task.                                                               *)
C5_NoEntryAfterTaken ==
    /\ [](sig = "taken" => (pcC \in {"end", "done"} /\ Len(received) = snap[2]))
    /\ []((sig = "taken" /\ pcC = "done") => (EndedLast /\ EndCalls = 1))
    /\ [][sig = "taken" =>
            /\ received' = received
            /\ \/ sinkOps' = sinkOps
               \/ \E ok \in BOOLEAN : sinkOps' = Append(sinkOps, SinkOp("end", NoRow, ok))]_vars

C5_Witness ==
    /\ sig = "taken" /\ pcC = "done"
    /\ snap[1] > snap[2]
    /\ Len(WrittenRows) >= 1
    /\ EndedLast

(* C6 as claimed: when the sink has ended after a shutdown event, it has   *)
(* taken every entry that was in the channel when the event was taken.     *)
C6_DrainsOnShutdown ==
    (sig = "taken" /\ pcC = "done") => Len(received) >= snap[1]

(* C6 as amended: on a shutdown event the sink does not drain the channel: *)
(* it has taken exactly the entries it had taken before, the entries then  *)
(* buffered are dropped with the receiver, and end() is its one last call. *)
C6_NoDrainOnShutdown ==
    sig = "taken" =>
        /\ Len(received) = snap[2]
        /\ pcC \in {"end", "done"}
        /\ pcC = "end" => (rxOpen /\ Len(chan) >= snap[1] - snap[2])
        /\ pcC = "done" => (EndedLast /\ EndCalls = 1 /\ chan = <<>> /\ ~rxOpen)

C6_Witness ==
    /\ sig = "taken" /\ pcC = "done"
    /\ snap[1] - snap[2] >= 2
    /\ EndedLast

(* C7: the channel never holds more than its capacity, it holds exactly    *)
(* the entries sent and not yet taken, in order, and while it is full the  *)
(* producer waiting in send does nothing: no read, no send, no drop.       *)
C7_BoundedLossless ==
    /\ [](Len(chan) <= ChannelCapacity)
    /\ [](rxOpen => sent = received \o chan)
    /\ [][(pcP = "send" /\ rxOpen /\ Len(chan) = ChannelCapacity) =>
            UNCHANGED <<pos, pcP, input, current_entry, to_read, sent>>]_vars

C7_Witness ==
    /\ pcP = "send" /\ rxOpen
    /\ Len(chan) = ChannelCapacity
    /\ Len(received) >= 1
    /\ Len(sent) > ChannelCapacity

(* C8 as claimed: whenever the sink task has exited without panicking,     *)
(* end() has been called exactly once and nothing was called after it.     *)
C8_EndOnEveryExit ==
    (pcC = "done" /\ resC # "Panic") => (EndedLast /\ EndCalls = 1)

(* C8 as amended: end() is called exactly once, as the last call, when the *)
(* sink leaves its loop (shutdown event or closed channel); a failed       *)
(* write() or commit() is the task's last call, end() is not called then.  *)
C8_EndOnLoopExit ==
    /\ \A i \in 1..Len(sinkOps) :
          (sinkOps[i].op = "end" \/ ~sinkOps[i].ok) => i = Len(sinkOps)
    /\ (pcC = "done" /\ resC # "Panic") => (EndedLast \/ FailedLast)
    /\ (pcC = "done" /\ sig = "taken") => EndedLast
    /\ pcC # "done" => ~EndedLast

C8_Witness ==
    /\ pcC = "done" /\ FailedLast
    /\ Len(WrittenRows) >= 2
    /\ EndCalls = 0

RowFails(e) == try_from(e).tag \in {"MissingField", "Unspecified"}

(* C9: when the projection of an entry fails, the sink counts it as        *)
(* unprocessable, calls neither write() nor commit(), and is back at its   *)
(* select with the receiver open; the counter equals the number of taken   *)
(* entries whose projection failed.                                        *)
C9_RowErrorContinues ==
    /\ [](unprocessable =
            Cardinality({i \in 1..Len(received) : RowFails(received[i])}))
    /\ [][(received' # received /\ RowFails(Head(chan))) =>
            /\ unprocessable' = unprocessable + 1
            /\ sinkOps' = sinkOps
            /\ pcC' = "select"
            /\ rxOpen']_vars

C9_Witness ==
    /\ Len(received) = 3
    /\ try_from(received[1]).tag = "MissingField"
    /\ try_from(received[3]).tag = "Unspecified"
    /\ unprocessable = 2
    /\ Len(WrittenRows) = 1
    /\ pcC = "select"

(* C10: once the sink task has exited, the top-level join can complete     *)
(* while the producer is still waiting for input from an idle upstream.    *)
C10_JoinOnSinkExit ==
    (pcC = "done" /\ pcP = "read" /\ Avail = 0 /\ upstream = "idle" /\ ~joined)
        => ENABLED Join

(* C19: once the sink has dropped its receiver, the next send attempted by *)
(* read_journal_entries fails and the function returns Ok, not an error;   *)
(* it reads nothing more from the byte source and sends nothing more.      *)
C19_ClosedChannelStops ==
    /\ [][(pcP = "send" /\ ~rxOpen /\ pcP' # pcP) =>
            /\ pcP' = "done" /\ resP' = "Ok" /\ exitP' = "closed"
            /\ pos' = pos /\ sent' = sent /\ chan' = chan]_vars
    /\ [][~rxOpen => sent' = sent]_vars
    /\ [][pcP = "done" => UNCHANGED <<pcP, resP, pos, input, sent>>]_vars
    /\ [](exitP = "closed" => (pcP = "done" /\ resP = "Ok" /\ ~rxOpen))

(* the reader stopped on a closed channel with input still unread *)
C19_Witness ==
    /\ exitP = "closed" /\ pcP = "done" /\ resP = "Ok"
    /\ ~rxOpen
    /\ Avail > 0
    /\ Len(sent) >= 1

(* the reader has returned a parse error *)
Aborted == pcP = "done" /\ resP = "ParseError"

(* C20: when the byte that follows a complete binary payload is not '\n',  *)
(* read_journal_entries returns ParseError; the entry under construction   *)
(* is not sent and no entry is sent afterwards; the entries sent before    *)
(* are still delivered: unless a shutdown event intervenes, the sink takes *)
(* them all, then sees the channel closed and calls end().                 *)
C20_ParseErrorAborts ==
    /\ []((inp.bytes = BadTerminator /\ pcP = "done" /\ exitP # "closed") =>
            /\ Aborted /\ exitP = "error"
            /\ pos = Len(BadTerminator) - 1
            /\ sent = <<EntryOf(BadBase[1])>>
            /\ current_entry = [k \in {<<65>>} |-> UTF8(<<49>>)])
    /\ [][Aborted => UNCHANGED <<pcP, resP, pos, sent, current_entry>>]_vars
    /\ []((Aborted /\ pcC = "done" /\ sig # "taken") =>
            /\ received = sent
            /\ EndedLast /\ EndCalls = 1
            /\ ~rxOpen)
    /\ []((Aborted /\ pcC = "select" /\ chan # <<>>) => ENABLED C_Recv)
    /\ []((Aborted /\ pcC = "select" /\ chan = <<>>) => ENABLED C_RecvClosed)
    /\ []((Aborted /\ pcC = "end") => ENABLED C_End)

(* the reader failed on the broken field after sending the first entry,    *)
(* and the sink took that entry, found the channel closed and called end() *)
C20_Witness ==
    /\ inp.bytes = BadTerminator /\ Aborted
    /\ sig = "none"
    /\ received = <<EntryOf(BadBase[1])>>
    /\ pcC = "done" /\ EndedLast /\ EndCalls = 1

(* C21: after every step in which the parser returns Ok(remaining, field), *)
(* the reader's buffer is exactly `remaining` before the next read is      *)
(* appended.  In every reachable step `remaining` is empty: the reader     *)
(* never holds a byte past the field it parses, so truncate-then-extend    *)
(* leaves the empty buffer.                                                *)
C21_BufferIsRemaining ==
    [][(pcP = "parse" /\ parse_journal_field(input).tag = "Ok" /\ pcP' # pcP) =>
          /\ pcP' = "read"
          /\ input' = parse_journal_field(input).rem
          /\ Len(input') = Len(parse_journal_field(input).rem)
          /\ parse_journal_field(input).rem = <<>>
          /\ current_entry' = put(current_entry, parse_journal_field(input).out.key,
                                  parse_journal_field(input).out.value)]_vars

(* the parser has just returned Ok on a binary field whose payload holds   *)
(* '\n', and the buffer is empty before the next read                      *)
C21_Witness ==
    /\ pcP = "read" /\ to_read = READ_STEP /\ input = <<>>
    /\ <<66>> \in DOMAIN current_entry
    /\ current_entry[<<66>>] = Bytes(<<65, NL, 66>>)

(* positions of the stream at which a field or an entry terminator ends:  *)
(* the fields fs of one entry start at offset off                          *)
RECURSIVE EndsInEntry(_, _)
EndsInEntry(fs, off) ==
    IF fs = <<>> THEN {off, off + 1}
    ELSE {off} \cup EndsInEntry(Tail(fs), off + Len(EncodeField(Head(fs))))

RECURSIVE EndsFrom(_, _)
EndsFrom(es, off) ==
    IF es = <<>> THEN {}
    ELSE EndsInEntry(Head(es), off)
         \cup EndsFrom(Tail(es), off + Len(EncodeEntry(Head(es))))

FieldEnds(es) == EndsFrom(es, 0)

(* number of entry terminators among the first p bytes of the stream *)
TerminatorsRead(es, p) ==
    Cardinality({k \in 1..Len(es) : Len(EncodeEntries(Take(es, k))) <= p})

(* C22: read-minimum policy.  The buffer is the part of the stream between *)
(* the last field or terminator end and the read position, so the reader   *)
(* holds no byte beyond the end of the field or terminator it is parsing;  *)
(* and a read from the byte source is only made when every entry whose     *)
(* terminating '\n' has been read has been sent.                           *)
C22_ReadMinimum ==
    /\ [](inp.wf =>
            LET ends == FieldEnds(inp.entries) \cup {0}
            IN  /\ pos - Len(input) \in ends
                /\ \A b \in ends : ~(pos - Len(input) < b /\ b < pos)
                /\ input = SubSeq(inp.bytes, pos - Len(input) + 1, pos))
    /\ [][(inp.wf /\ pos' # pos) =>
            /\ Len(sent) = TerminatorsRead(inp.entries, pos)
            /\ input # <<NL>>]_vars

(* the reader is about to read the first byte of the third entry and has   *)
(* sent the two entries before it *)
C22_Witness ==
    /\ inp.wf /\ Len(inp.entries) = 3
    /\ pcP = "read" /\ input = <<>>
    /\ pos = Len(EncodeEntries(Take(inp.entries, 2)))
    /\ Len(sent) = 2

(* the stream ends right after an entry terminator, no shutdown event has  *)
(* occurred and no call on the inserter has failed; once false it stays    *)
(* false, so "always CleanRun implies eventually D" is <>(~CleanRun \/ D)  *)
CleanRun ==
    /\ inp.wf /\ upstream = "eof"
    /\ sig = "none"
    /\ \A i \in 1..Len(sinkOps) : sinkOps[i].ok

(* the producer returned Ok, every entry sent was taken and written or     *)
(* counted, end() was the sink's one last call, the join has completed     *)
Drained ==
    /\ pcP = "done" /\ resP = "Ok"
    /\ sent = EntriesOf(inp.entries)
    /\ received = sent
    /\ Len(WrittenRows) + unprocessable = Len(received)
    /\ pcC = "done" /\ EndedLast /\ EndCalls = 1
    /\ joined

(* C23: if the byte source reaches EOF right after a complete entry        *)
(* terminator, no shutdown event occurs and the sink operations do not     *)
(* fail, then eventually the producer returns Ok, every entry it sent is   *)
(* taken by the sink and written or counted as unprocessable, the sink     *)
(* sees the closed channel and calls end(), and the join completes.        *)
C23_CleanEofDrains == <>(~CleanRun \/ Drained)

(* what does hold: a clean run drains unless the projection of an entry    *)
(* panics in the sink task                                                 *)
C23_DrainsUnlessPanic == <>(~CleanRun \/ Drained \/ resC = "Panic")

(* a clean run in which the sink task was ended by a panic: the entry      *)
(* after it was sent or is held by the producer and is never taken         *)
C23_PanicEndsSink ==
    /\ CleanRun /\ resC = "Panic" /\ joined
    /\ Len(received) < Len(inp.entries)
    /\ EndCalls = 0

(***************************************************************************)
(* The field parser on its own (FnSpec)                                    *)
(***************************************************************************)
Parsed == call.fn = "parse_journal_field" /\ ret # NoRet

(* C11: text round trip.  For a key K without '=' and '\n', a value V      *)
(* without '\n' and any REST, parse_journal_field(K "=" V "\n" REST)       *)
(* returns Ok with remaining input exactly REST and the field {K, UTF8(V)}.*)
C11_TextRoundTrip ==
    (Parsed /\ call.form = "whole" /\ call.value.kind = "UTF8")
        => ret = Ok(call.rest, Field(call.key, UTF8(call.value.data)))

(* a value holding '=', a key of two bytes and a REST that is itself a field *)
C11_Witness ==
    /\ Parsed /\ call.form = "whole" /\ call.value.kind = "UTF8"
    /\ call.arg = <<65, 66, EQ, 86, EQ, NL, 65, EQ, 86, NL>>
    /\ ret.tag = "Ok" /\ ret.rem = <<65, EQ, 86, NL>>
    /\ ret.out.value.data = <<86, EQ>>

(* C12: binary round trip.  For a key K, any byte sequence B (holding '\n' *)
(* or NUL, or empty) and any REST, parse_journal_field(K "\n" LE64(len B)  *)
(* B "\n" REST) returns Ok with remaining input exactly REST and the field *)
(* {K, Bytes(B)}.                                                          *)
C12_BinaryRoundTrip ==
    (Parsed /\ call.form = "whole" /\ call.value.kind = "Bytes")
        => ret = Ok(call.rest, Field(call.key, Bytes(call.value.data)))

(* a payload of '\n' and NUL, followed by a REST that starts with '\n' *)
C12_Witness ==
    /\ Parsed /\ call.form = "whole"
    /\ call.value = Bytes(<<NL, 0>>) /\ call.rest = <<NL>>
    /\ ret.tag = "Ok" /\ ret.rem = <<NL>> /\ ret.out.value = Bytes(<<NL, 0>>)

(* the empty payload parses as well *)
C12_WitnessEmpty ==
    Parsed /\ call.form = "whole" /\ call.value = Bytes(<<>>) /\ ret.tag = "Ok"

(* C13: exact demand.  For a binary field prefix KEY "\n" LE64(N) followed *)
(* by only M < N payload bytes, parse_journal_field returns Incomplete     *)
(* with the exact demand N - M, and the reader's next read asks for        *)
(* exactly N - M bytes.                                                    *)
C13_ExactDemand ==
    (Parsed /\ call.form = "mid")
        => /\ ret = IncompleteSize(call.declared - Len(call.value.data))
           /\ Demand(ret) = call.declared - Len(call.value.data)

(* four bytes declared, two present: two are demanded, not one *)
C13_Witness ==
    /\ Parsed /\ call.form = "mid"
    /\ call.declared = 4 /\ call.value.data = <<NL, 120>>
    /\ ret.tag = "Incomplete" /\ ret.needed = "Size" /\ Demand(ret) = 2

(* the prefix ends after the '\n' that follows the key of a binary field   *)
(* and before the last byte of its 8-byte length                           *)
EndsInLength ==
    /\ call.value.kind = "Bytes"
    /\ Len(call.arg) >= Len(call.key) + 1
    /\ Len(call.arg) < Len(call.key) + 1 + 8

(* C14 as stated: for every non-empty proper prefix of a well-formed field *)
(* (text or binary), also one that ends inside the 8-byte length,          *)
(* parse_journal_field returns Incomplete and not Error.                   *)
C14_PrefixIncomplete ==
    (Parsed /\ call.form = "prefix") => ret.tag = "Incomplete"

(* C14, amended: for every non-empty proper prefix of a well-formed field  *)
(* parse_journal_field returns Incomplete, except for a prefix of a binary *)
(* field that ends after the key's '\n' and before the end of the 8-byte   *)
(* length, for which it returns Error of kind Eof; it never returns Ok or  *)
(* an error of another kind.                                               *)
C14_PrefixIncompleteOrEof ==
    (Parsed /\ call.form = "prefix")
        => IF EndsInLength
           THEN ret.tag = "Error" /\ ret.code = "Eof"
           ELSE ret.tag = "Incomplete"

(* a binary field cut after three bytes of its length *)
C14_Witness ==
    /\ Parsed /\ call.form = "prefix"
    /\ call.arg = <<65, NL, 2, 0, 0>>
    /\ ret = Error("Eof", <<2, 0, 0>>)

(* C15: a field key has at least one byte.  When the input begins with '=' *)
(* parse_journal_field returns Error and never Ok with an empty key.       *)
C15_EmptyKeyRejected ==
    (Parsed /\ call.arg # <<>> /\ Head(call.arg) = EQ)
        => ret.tag = "Error"

(* the part of C15 that is violated in the plainest way: Ok, key empty *)
C15_OkWithEmptyKey ==
    /\ Parsed /\ call.arg = <<EQ, 86, NL>>
    /\ ret = Ok(<<>>, Field(<<>>, UTF8(<<86>>)))

(***************************************************************************)
(* The row projection on its own (FnSpec)                                  *)
(***************************************************************************)
Projected == call.fn = "try_from" /\ ret # NoRet

Absent(e) == RequiredKeys \ DOMAIN e

(* C16: for an entry in which at least one of the six required keys is     *)
(* absent, whatever its other fields, try_from fails with MissingField     *)
(* naming an absent key, never with Unspecified and never with a Row.      *)
C16_MissingFieldReported ==
    (Projected /\ Absent(call.entry) # {})
        => ret.tag = "MissingField" /\ ret.field \in Absent(call.entry)

(* only __CURSOR is absent and the timestamp is no integer: Unspecified *)
C16_UnspecifiedBeforeCursor ==
    /\ Projected /\ Absent(call.entry) = {K_CURSOR}
    /\ call.entry[K_REALTIME_TIMESTAMP] = UTF8(<<120>>)
    /\ ret.tag = "Unspecified"

(* the nine keys the record leaves out *)
LeftOut ==
    RequiredKeys \cup {K_SEQNUM, K_SEQNUM_ID, K_MONOTONIC_TIMESTAMP}

(* C17: after a successful projection the keys of row.record are exactly   *)
(* the entry's keys minus the six required keys, __SEQNUM, __SEQNUM_ID and *)
(* __MONOTONIC_TIMESTAMP; each key appears once; each value is the string  *)
(* conversion of the entry's value for that key.                           *)
C17_ProjectionFilter ==
    (Projected /\ ret.tag = "Row")
        => /\ {p[1] : p \in ret.record} = (DOMAIN call.entry) \ LeftOut
           /\ \A p, q \in ret.record : p[1] = q[1] => p = q
           /\ \A p \in ret.record : p[2] = ValueToString(call.entry[p[1]])

(* an entry with the three sequence keys and one other field *)
C17_Witness ==
    /\ Projected /\ ret.tag = "Row"
    /\ {K_SEQNUM, K_SEQNUM_ID, K_MONOTONIC_TIMESTAMP, <<77>>} \subseteq DOMAIN call.entry
    /\ ret.record = {<< <<77>>, <<>> >>}

(***************************************************************************)
(* The Entry Reader on repeated keys (ReaderSpec)                          *)
(***************************************************************************)
(* C18: when a key occurs in more than one field between two entry         *)
(* terminators, the emitted entry contains that key once, mapped to the    *)
(* value of its last occurrence, whether the occurrences are text or       *)
(* binary.                                                                 *)
C18_LastOccurrenceWins ==
    \A i \in 1..Len(sent) :
        LET fs == inp.entries[i]
        IN  /\ DOMAIN sent[i] = {fs[a].key : a \in 1..Len(fs)}
            /\ \A a \in 1..Len(fs) :
                  (\A b \in (a + 1)..Len(fs) : fs[b].key # fs[a].key)
                      => sent[i][fs[a].key] = fs[a].value

(* text, then binary, then text again under the same key *)
C18_Witness ==
    /\ inp.entries = << << Field(<<65>>, UTF8(<<49>>)), Field(<<65>>, Bytes(<<NL>>)),
                           Field(<<65>>, UTF8(<<50>>)) >> >>
    /\ sent = << [k \in {<<65>>} |-> UTF8(<<50>>)] >>

(* text, then binary under the same key *)
C18_WitnessBinaryLast ==
    /\ inp.entries = << << Field(<<65>>, UTF8(<<49>>)), Field(<<65>>, Bytes(<<NL>>)) >> >>
    /\ sent = << [k \in {<<65>>} |-> Bytes(<<NL>>)] >>

(***************************************************************************)
(* The Entry Reader on blank lines (ReaderSpec)                            *)
(***************************************************************************)
(* C24: every entry sent on the channel by read_journal_entries contains   *)
(* at least one field, for any input stream, also one that begins with a   *)
(* blank line or holds two consecutive entry terminators.                  *)
C24_NoEmptyEntry ==
    \A i \in 1..Len(sent) : DOMAIN sent[i] # {}

(* the stream is the lone byte '\n': an entry without fields was sent *)
C24_EmptyEntrySent ==
    /\ inp.bytes = <<NL>>
    /\ sent = <<EmptyEntry>>
    /\ pcP = "done" /\ resP = "Ok"

(* the stream "A=1" "\n" "\n" "\n": the entry, then an entry without fields *)
C24_EmptyEntryAfterEntry ==
    /\ inp.bytes = <<65, EQ, 49, NL, NL, NL>>
    /\ Len(sent) = 2 /\ sent[2] = EmptyEntry

(***************************************************************************)
(* The row projection on any timestamp (FnSpec)                            *)
(***************************************************************************)
(* C25: row projection is total.  For every entry, whatever string         *)
(* __REALTIME_TIMESTAMP holds, also a decimal integer whose microseconds   *)
(* times 1000 are outside the range of a timestamp, try_from returns a     *)
(* Row, MissingField or Unspecified and never aborts the sink task.        *)
C25_ProjectionTotal ==
    Projected => ret.tag \in {"Row", "MissingField", "Unspecified"}

(* all six required fields, the timestamp one second past year 9999 *)
C25_PanicOnLateTimestamp ==
    /\ Projected /\ Absent(call.entry) = {}
    /\ call.entry[K_REALTIME_TIMESTAMP] =
          UTF8(<<50,53,51,52,48,50,51,48,48,56,48,48,48,48,48,48,48,48>>)
    /\ ret.tag = "Panic"
====
